---- MODULE Spec2Model ----
(***************************************************************************)
(* ClockInTime: the Factorial session client (api/factorial_client.py) and *)
(* the signal handlers of the menu bar application (ui/menu_bar_app.py),   *)
(* run against a remote attendance service whose feeds and answers are     *)
(* chosen nondeterministically.                                            *)
(***************************************************************************)
EXTENDS Integers, Sequences, FiniteSets, TLC

VARIABLES
    factorial_client,  \* ClockInTimeApp.factorial_client / the FactorialClient under test
    shifts,            \* remote: the /attendance/shifts feed of the current month
    calendar_days,     \* remote: the /attendance/calendar feed of the current month
    now,               \* datetime.now(): <<hour, minute>> of today, the same for a whole behaviour
    status,            \* status_action text
    tooltip,           \* tray tooltip
    settings,          \* Config._settings: the value stored under "workday_hours"
    event_monitor,     \* MacEventMonitor: whether on_sleep_callback and on_wake_callback are set
    login_detector,    \* LoginEventDetector: whether on_login_callback is set, _login_detected
    trace,             \* observation: a summary of every operation handled so far
    last               \* observation: the operation handled last

vars == <<factorial_client, shifts, calendar_days, now, status, tooltip, settings, event_monitor,
          login_detector, last, trace>>

\* the configuration and the event sources
services == <<settings, event_monitor, login_detector>>

----------------------------------------------------------------------------
(* Bounds of the model *)

\* operations handled in one behaviour, after construction
MaxOps == 2

\* the same where the signals and the client's methods are taken together
MaxFrameOps == 1

\* registrations and notifications in one behaviour of the event sources
MaxSignals == 3

----------------------------------------------------------------------------
(* Observation *)

\* the record of an operation: the client and the shifts feed it started from, the
\* answers it got, the requests it sent, the exception that left it, its result
Op(name, c, feed, answers, sent, raised, result) ==
    [op |-> name, client |-> c, pre |-> feed, inp |-> answers, reqs |-> sent, exc |-> raised,
     ret |-> result]

----------------------------------------------------------------------------
(* JSON values as Python sees them through dict.get *)

JNull == [t |-> "null"]
JMissing == [t |-> "missing"]
JBool(b) == [t |-> "bool", v |-> b]
JInt(i) == [t |-> "int", v |-> i]
\* a string is the sequence of its characters (or of longer pieces of literal text)
JStr(s) == [t |-> "str", v |-> s]

\* dict.get(key): a missing key reads as None
Get(j) == IF j.t = "missing" THEN JNull ELSE j

\* dict.get(key, default): only a missing key takes the default
GetDefault(j, d) == IF j.t = "missing" THEN d ELSE j

\* Python truthiness of a JSON value
Truthy(j) ==
    CASE j.t = "bool" -> j.v
      [] j.t = "int" -> j.v # 0
      [] j.t = "str" -> j.v # <<>>
      [] OTHER -> FALSE

----------------------------------------------------------------------------
(* Exceptions *)

NoExc == [type |-> "none", msg |-> <<>>]
Exc(type, msg) == [type |-> type, msg |-> msg]

\* class APIError(ClockInTimeError); class AuthenticationError(APIError)
Parent(type) ==
    CASE type = "AuthenticationError" -> "APIError"
      [] type = "APIError" -> "ClockInTimeError"
      [] type = "ConfigurationError" -> "ClockInTimeError"
      [] type = "SystemEventError" -> "ClockInTimeError"
      [] type = "ClockInTimeError" -> "Exception"
      [] type \in {"Exception", "KeyboardInterrupt", "SystemExit"} -> "BaseException"
      [] type \in {"BaseException", "object"} -> "object"
      [] OTHER -> "Exception"

\* isinstance(e, cls), as an except clause tests it
IsInstance(type, cls) ==
    /\ type # "none"
    /\ \/ type = cls
       \/ Parent(type) = cls
       \/ Parent(Parent(type)) = cls
       \/ Parent(Parent(Parent(type))) = cls
       \/ Parent(Parent(Parent(Parent(type)))) = cls

----------------------------------------------------------------------------
(* The date of today and the current period *)

Today == 15
OtherDay == Today - 1
CurYear == 2025
CurMonth == 10

----------------------------------------------------------------------------
(* HTTP, as the requests library presents it *)

\* a login that never calls raise_for_status()
raise_for_status_Never(code) == FALSE

\* Response.raise_for_status(): HTTPError (a RequestException) for 4xx and 5xx only
raise_for_status(code) == code >= 400 /\ code < 600

\* a request the client sent: method, endpoint and the parameters that matter
Req(m, ep, arg) == [m |-> m, ep |-> ep, arg |-> arg]

SIGN_IN == "/users/sign_in"
PERIODS == "/attendance/periods"
CALENDAR == "/attendance/calendar"
SHIFTS == "/attendance/shifts"
CLOCK_IN == "/attendance/shifts/clock_in"
CLOCK_OUT == "/attendance/shifts/clock_out"

\* answers to GET /users/sign_in: a transport exception, or a status and whether
\* the csrf-token meta tag is in the page
SignInPages ==
    { [exc |-> TRUE, status |-> 0, csrf |-> JNull],
      [exc |-> FALSE, status |-> 200, csrf |-> JStr(<<"tok">>)],
      [exc |-> FALSE, status |-> 200, csrf |-> JNull],
      [exc |-> FALSE, status |-> 304, csrf |-> JNull],
      [exc |-> FALSE, status |-> 404, csrf |-> JNull],
      [exc |-> FALSE, status |-> 503, csrf |-> JStr(<<"tok">>)] }

\* answers to POST /users/sign_in: the text of the flash--wrong banner when the
\* page has one (the pattern needs at least one character)
SignInResults ==
    { [exc |-> TRUE, status |-> 0, banner |-> JNull],
      [exc |-> FALSE, status |-> 200, banner |-> JNull],
      [exc |-> FALSE, status |-> 200, banner |-> JStr(<<" ", "B", "a", "d", " ">>)],
      [exc |-> FALSE, status |-> 304, banner |-> JNull],
      [exc |-> FALSE, status |-> 401, banner |-> JStr(<<"N", "o">>)],
      [exc |-> FALSE, status |-> 500, banner |-> JNull] }

Period(y, m, id, emp) == [year |-> JInt(y), month |-> JInt(m), id |-> id, employee_id |-> emp]

\* answers to GET /attendance/periods
PeriodsResults ==
    { [exc |-> TRUE, status |-> 0, json |-> <<>>],
      [exc |-> FALSE, status |-> 500, json |-> <<>>],
      [exc |-> FALSE, status |-> 200, json |-> <<>>],
      [exc |-> FALSE, status |-> 200, json |-> <<Period(CurYear, CurMonth, JInt(42), JInt(7))>>],
      [exc |-> FALSE, status |-> 200,
       json |-> <<Period(CurYear, CurMonth - 1, JInt(41), JInt(7)),
                  Period(CurYear, CurMonth, JInt(42), JInt(7)),
                  Period(CurYear, CurMonth, JInt(43), JInt(8))>>],
      [exc |-> FALSE, status |-> 200, json |-> <<Period(CurYear - 1, CurMonth, JInt(30), JInt(7))>>],
      [exc |-> FALSE, status |-> 200, json |-> <<Period(CurYear, CurMonth, JMissing, JMissing)>>] }

\* str.strip() on a sequence of characters
RECURSIVE LStrip(_)
LStrip(s) == IF s # <<>> /\ Head(s) = " " THEN LStrip(Tail(s)) ELSE s
RECURSIVE RStrip(_)
RStrip(s) == IF s # <<>> /\ s[Len(s)] = " " THEN RStrip(SubSeq(s, 1, Len(s) - 1)) ELSE s
Strip(s) == RStrip(LStrip(s))

----------------------------------------------------------------------------
(* FactorialClient *)

\* FactorialClient.__init__
NewClient == [present |-> TRUE, logged_in |-> FALSE, employee_id |-> JNull, period_id |-> JNull]

\* self.factorial_client = None
NoClient == [present |-> FALSE, logged_in |-> FALSE, employee_id |-> JNull, period_id |-> JNull]

\* a scan that keeps the last period for (year, month) instead of returning at the first
FirstPeriod_Last(periods, year, month) ==
    IF \E i \in 1..Len(periods) : Get(periods[i].year) = JInt(year) /\ Get(periods[i].month) = JInt(month)
    THEN CHOOSE i \in 1..Len(periods) :
            /\ Get(periods[i].year) = JInt(year) /\ Get(periods[i].month) = JInt(month)
            /\ \A k \in (i + 1)..Len(periods) :
                  ~(Get(periods[k].year) = JInt(year) /\ Get(periods[k].month) = JInt(month))
    ELSE 0

\* index of the first period of the feed for (year, month), 0 when there is none
FirstPeriod(periods, year, month) ==
    IF \E i \in 1..Len(periods) : Get(periods[i].year) = JInt(year) /\ Get(periods[i].month) = JInt(month)
    THEN CHOOSE i \in 1..Len(periods) :
            /\ Get(periods[i].year) = JInt(year) /\ Get(periods[i].month) = JInt(month)
            /\ \A k \in 1..(i - 1) :
                  ~(Get(periods[k].year) = JInt(year) /\ Get(periods[k].month) = JInt(month))
    ELSE 0

\* FactorialClient._set_period_id: the result is [exc, reqs, client]
set_period_id(c, res) ==
    LET rq == <<Req("GET", PERIODS, <<CurYear, CurMonth>>)>>
        i == FirstPeriod(res.json, CurYear, CurMonth)
    IN  IF res.exc \/ raise_for_status(res.status)
        THEN [exc |-> Exc("APIError", <<"Error fetching period data">>), reqs |-> rq, client |-> c]
        ELSE IF i = 0
        THEN [exc |-> Exc("APIError", <<"Could not find period">>), reqs |-> rq, client |-> c]
        ELSE [exc |-> NoExc, reqs |-> rq,
              client |-> [c EXCEPT !.employee_id = Get(res.json[i].employee_id),
                                   !.period_id = Get(res.json[i].id)]]

\* a login that goes on without looking for the token
csrf_match_Any(page) == TRUE

\* re.search of the csrf-token meta tag in the sign-in page found it
csrf_match(page) == page.csrf.t # "null"

\* a login that does not look for the banner
error_match_None(result) == FALSE

\* re.search of the flash--wrong banner in the answer to the credential POST found it
error_match(result) == result.banner.t # "null"

\* FactorialClient.login: the result is [exc, reqs, client]
login(c, page, result, periods) ==
    LET get == <<Req("GET", SIGN_IN, <<>>)>>
        post == get \o <<Req("POST", SIGN_IN, page.csrf)>>
        marked == [c EXCEPT !.logged_in = TRUE]
        sp == set_period_id(marked, periods)
    IN  IF page.exc \/ raise_for_status(page.status)
        THEN [exc |-> Exc("APIError", <<"Network error during login">>), reqs |-> get, client |-> c]
        ELSE IF ~csrf_match(page)
        THEN [exc |-> Exc("AuthenticationError", <<"Could not extract CSRF token">>),
              reqs |-> get, client |-> c]
        ELSE IF result.exc \/ raise_for_status(result.status)
        THEN [exc |-> Exc("APIError", <<"Network error during login">>), reqs |-> post, client |-> c]
        ELSE IF error_match(result)
        THEN [exc |-> Exc("AuthenticationError", <<"Login failed: ">> \o Strip(result.banner.v)),
              reqs |-> post, client |-> c]
        ELSE [exc |-> sp.exc, reqs |-> post \o sp.reqs, client |-> sp.client]

\* a method that does not call the guard
ensure_logged_in_Skipped(c) == TRUE

\* FactorialClient._ensure_logged_in: TRUE when the guard passes
ensure_logged_in(c) == c.logged_in

NotLoggedIn == Exc("AuthenticationError", <<"Not logged in. Call login() first.">>)

\* the remote's answers to a clock-in or clock-out POST
WriteStatuses == {200, 201, 204, 422, 500}

Digits == <<"0", "1", "2", "3", "4", "5", "6", "7", "8", "9">>
IsDigit(ch) == \E d \in 1..10 : Digits[d] = ch
DigitVal(ch) == (CHOOSE d \in 1..10 : Digits[d] = ch) - 1
AllDigits(s, idx) == \A i \in idx : IsDigit(s[i])
Num2(s, i) == DigitVal(s[i]) * 10 + DigitVal(s[i + 1])

\* now.strftime("%H:%M") of a clock <<hour, minute>>
strftime_HM(t) ==
    <<Digits[(t[1] \div 10) + 1], Digits[(t[1] % 10) + 1], ":",
      Digits[(t[2] \div 10) + 1], Digits[(t[2] % 10) + 1]>>

\* datetime.strptime(s, "%H:%M") succeeds
ValidHM(s) ==
    /\ Len(s) = 5 /\ s[3] = ":" /\ AllDigits(s, {1, 2, 4, 5})
    /\ Num2(s, 1) <= 23 /\ Num2(s, 4) <= 59

\* hour * 60 + minute of datetime.strptime(s, "%H:%M")
MinutesOfHM(s) == Num2(s, 1) * 60 + Num2(s, 4)

\* a write that calls raise_for_status() on its response
clock_now_Raising(c, ep, t, resp) ==
    LET rq == <<Req("POST", ep, strftime_HM(t))>>
    IN  IF ~ensure_logged_in(c)
        THEN [exc |-> NotLoggedIn, reqs |-> <<>>, ret |-> FALSE]
        ELSE IF resp.exc \/ raise_for_status(resp.status)
        THEN [exc |-> Exc("APIError", <<"Error during clock">>), reqs |-> rq, ret |-> FALSE]
        ELSE [exc |-> NoExc, reqs |-> rq, ret |-> resp.status \in {200, 201}]

\* FactorialClient.clock_in_now / clock_out_now: the result is [exc, reqs, ret];
\* resp is the remote's answer, [exc, status]
clock_now(c, ep, t, resp) ==
    LET rq == <<Req("POST", ep, strftime_HM(t))>>
    IN  IF ~ensure_logged_in(c)
        THEN [exc |-> NotLoggedIn, reqs |-> <<>>, ret |-> FALSE]
        ELSE IF resp.exc
        THEN [exc |-> Exc("APIError", <<"Error during clock">>), reqs |-> rq, ret |-> FALSE]
        ELSE [exc |-> NoExc, reqs |-> rq, ret |-> resp.status \in {200, 201}]

clock_in_now(c, t, resp) == clock_now(c, CLOCK_IN, t, resp)
clock_out_now(c, t, resp) == clock_now(c, CLOCK_OUT, t, resp)

\* a scan that decides on the first entry of the feed, whatever its day
FirstToday_Any(feed) == IF feed # <<>> THEN 1 ELSE 0

\* index of the first entry of a feed whose day is today, 0 when there is none
FirstToday(feed) ==
    IF \E i \in 1..Len(feed) : Get(feed[i].day) = JInt(Today)
    THEN CHOOSE i \in 1..Len(feed) :
            /\ Get(feed[i].day) = JInt(Today)
            /\ \A k \in 1..(i - 1) : Get(feed[k].day) # JInt(Today)
    ELSE 0

\* datetime.strptime(date_str, "%Y-%m-%d"): the <<year, month, day>> of a date string
IsLeap(y) == (y % 4 = 0 /\ y % 100 # 0) \/ y % 400 = 0
DaysInMonth(y, m) ==
    IF m = 2 THEN (IF IsLeap(y) THEN 29 ELSE 28)
    ELSE IF m \in {4, 6, 9, 11} THEN 30 ELSE 31
DateOf(s) == <<Num2(s, 1) * 100 + Num2(s, 3), Num2(s, 6), Num2(s, 9)>>
ValidDate(s) ==
    /\ Len(s) = 10 /\ s[5] = "-" /\ s[8] = "-" /\ AllDigits(s, {1, 2, 3, 4, 6, 7, 9, 10})
    /\ DateOf(s)[1] >= 1 /\ DateOf(s)[2] \in 1..12
    /\ DateOf(s)[3] >= 1 /\ DateOf(s)[3] <= DaysInMonth(DateOf(s)[1], DateOf(s)[2])

\* date.strftime("%A")
MonthKey == <<0, 3, 2, 5, 0, 3, 5, 1, 4, 6, 2, 4>>
DayNames == <<"Sunday", "Monday", "Tuesday", "Wednesday", "Thursday", "Friday", "Saturday">>
strftime_A(d) ==
    LET y == IF d[2] < 3 THEN d[1] - 1 ELSE d[1]
    IN  DayNames[((y + (y \div 4) - (y \div 100) + (y \div 400) + MonthKey[d[2]] + d[3]) % 7) + 1]

\* str(x) inside an f-string
PyStr(j) ==
    CASE j.t = "null" -> <<"None">>
      [] j.t = "bool" -> IF j.v THEN <<"True">> ELSE <<"False">>
      [] OTHER -> j.v

\* a decision that takes every day for a working day
day_decision_Working(day_info) ==
    [exc |-> NoExc, ret |-> [should_work |-> TRUE, reason |-> <<"Working day">>]]

\* the decision of should_work_today on today's calendar entry: [exc, ret]
day_decision(day_info) ==
    LET leave_name == GetDefault(day_info.leave_name, JStr(<<"Leave">>))
        date_str == GetDefault(day_info.date, JStr(<<>>))
    IN  IF Truthy(Get(day_info.is_leave))
        THEN [exc |-> NoExc,
              ret |-> [should_work |-> FALSE, reason |-> <<"Leave day: ">> \o PyStr(leave_name)]]
        ELSE IF ~Truthy(Get(day_info.is_laborable))
        THEN IF Truthy(date_str)
             THEN IF ValidDate(date_str.v)
                  THEN [exc |-> NoExc,
                        ret |-> [should_work |-> FALSE,
                                 reason |-> <<"Non-working day: ", strftime_A(DateOf(date_str.v))>>]]
                  ELSE [exc |-> Exc("ValueError", <<"time data does not match format">>),
                        ret |-> [should_work |-> FALSE, reason |-> <<>>]]
             ELSE [exc |-> NoExc,
                   ret |-> [should_work |-> FALSE, reason |-> <<"Non-working day (weekend or holiday)">>]]
        ELSE [exc |-> NoExc, ret |-> [should_work |-> TRUE, reason |-> <<"Working day">>]]

NoDecision == [should_work |-> FALSE, reason |-> <<>>]

\* FactorialClient.should_work_today: the result is [exc, reqs, ret]; ok says
\* that the calendar request came back without a RequestException
should_work_today(c, cal, ok) ==
    LET rq == <<Req("GET", CALENDAR, c.employee_id)>>
        i == FirstToday(cal)
    IN  IF ~ensure_logged_in(c)
        THEN [exc |-> NotLoggedIn, reqs |-> <<>>, ret |-> NoDecision]
        ELSE IF ~ok
        THEN [exc |-> Exc("APIError", <<"Error fetching calendar">>), reqs |-> rq, ret |-> NoDecision]
        ELSE IF i = 0
        THEN [exc |-> NoExc, reqs |-> rq,
              ret |-> [should_work |-> TRUE, reason |-> <<"Working day (assumed)">>]]
        ELSE [exc |-> day_decision(cal[i]).exc, reqs |-> rq, ret |-> day_decision(cal[i]).ret]

NoStatus == [has_shift |-> FALSE, clock_in |-> JNull, clock_out |-> JNull]

\* FactorialClient.get_today_status: the result is [exc, reqs, ret]
get_today_status(c, feed, ok) ==
    LET rq == <<Req("GET", SHIFTS, c.employee_id)>>
        i == FirstToday(feed)
    IN  IF ~ensure_logged_in(c)
        THEN [exc |-> NotLoggedIn, reqs |-> <<>>, ret |-> NoStatus]
        ELSE IF ~ok
        THEN [exc |-> Exc("APIError", <<"Error fetching status">>), reqs |-> rq, ret |-> NoStatus]
        ELSE IF i = 0
        THEN [exc |-> NoExc, reqs |-> rq, ret |-> NoStatus]
        ELSE [exc |-> NoExc, reqs |-> rq,
              ret |-> [has_shift |-> TRUE, clock_in |-> Get(feed[i].clock_in),
                       clock_out |-> Get(feed[i].clock_out)]]

----------------------------------------------------------------------------
(* The remote attendance service *)

Shift(day, cin, cout) == [day |-> JInt(day), clock_in |-> cin, clock_out |-> cout]

\* an entry of the shifts feed that is an open shift of today
IsOpen(e) == Get(e.day) = JInt(Today) /\ Truthy(Get(e.clock_in)) /\ ~Truthy(Get(e.clock_out))
IsToday(e) == Get(e.day) = JInt(Today)

\* the service took the write: any 2xx answer
Accepted(resp) == ~resp.exc /\ resp.status >= 200 /\ resp.status < 300

\* an accepted clock-in adds an open shift for today
RemoteClockIn(feed, t) == Append(feed, Shift(Today, JStr(strftime_HM(t)), JNull))

\* an accepted clock-out closes the first open shift of today, when there is one
RemoteClockOut(feed, t) ==
    IF \E i \in 1..Len(feed) : IsOpen(feed[i])
    THEN LET i == CHOOSE k \in 1..Len(feed) :
                     IsOpen(feed[k]) /\ \A m \in 1..(k - 1) : ~IsOpen(feed[m])
         IN  [feed EXCEPT ![i].clock_out = JStr(strftime_HM(t))]
    ELSE feed

----------------------------------------------------------------------------
(* utils/time_utils.py *)

DEFAULT_WORKDAY_HOURS == 8

\* calculate_worked_hours, in minutes: (now.hour * 60 + now.minute) - (clock-in minutes)
worked_minutes(clock_in, t) == (t[1] * 60 + t[2]) - MinutesOfHM(clock_in)

\* a remaining time that stops at zero instead of going negative in overtime
remaining_minutes_Clamped(clock_in, workday_hours, t) ==
    IF workday_hours * 60 - worked_minutes(clock_in, t) < 0 THEN 0
    ELSE workday_hours * 60 - worked_minutes(clock_in, t)

\* calculate_remaining_hours, in minutes: workday_hours - worked_hours
remaining_minutes(clock_in, workday_hours, t) == workday_hours * 60 - worked_minutes(clock_in, t)

\* (hours - int(hours)) * 60 in binary floating point falls just short of the whole
\* number of minutes for these <<workday_hours, worked minutes>> of the model's clock
TruncLoss == { <<1, -160>>, <<1, 305>>, <<8, -160>>, <<8, 215>>, <<8, 265>>, <<24, 265>> }

\* format_remaining_time of workday_hours - worked / 60: <<int(hours), int((hours - h) * 60)>>
format_remaining_time(workday_hours, worked) ==
    LET r == workday_hours * 60 - worked
        a == IF r >= 0 THEN r ELSE -r
        sign == IF r >= 0 THEN 1 ELSE -1
        loss == IF <<workday_hours, worked>> \in TruncLoss THEN 1 ELSE 0
    IN  <<sign * (a \div 60), sign * ((a % 60) - loss)>>

\* str(n) of a number below 100
StrInt(n) == IF n < 10 THEN <<Digits[n + 1]>> ELSE <<Digits[(n \div 10) + 1], Digits[(n % 10) + 1]>>

\* format_time_display
format_time_display(hours, minutes) ==
    IF hours > 0
    THEN StrInt(hours) \o <<"h ">> \o StrInt(minutes) \o <<"m">>
    ELSE StrInt(minutes) \o <<"m">>

----------------------------------------------------------------------------
(* ClockInTimeApp (ui/menu_bar_app.py) *)

ICON_NON_WORKING_DAY == "ICON_NON_WORKING_DAY "
ICON_COMPLETED == "ICON_COMPLETED "
ICON_OVERTIME == "ICON_OVERTIME "
ICON_WARNING == "ICON_WARNING "
ICON_ERROR == "ICON_ERROR "

\* a handler without its except clause
Caught_Nothing(e) == FALSE

\* "except APIError": the exception is caught by the handler
Caught(e) == IsInstance(e.type, "APIError")

\* the status and the tooltip of an open shift (update_status, the else of "if clock_out");
\* strptime raises TypeError on None and ValueError on a string that is no HH:MM time
open_shift_status(clock_in, workday_hours, t, st, tt) ==
    LET rem == remaining_minutes(clock_in.v, workday_hours, t)
        hm == format_remaining_time(workday_hours, worked_minutes(clock_in.v, t))
        time_str == format_time_display(hm[1], hm[2])
    IN  IF clock_in.t # "str"
        THEN [exc |-> Exc("TypeError", <<"strptime() argument 1 must be str">>),
              status |-> st, tooltip |-> tt]
        ELSE IF ~ValidHM(clock_in.v)
        THEN [exc |-> Exc("ValueError", <<"time data does not match format">>),
              status |-> st, tooltip |-> tt]
        ELSE IF rem > 0
        THEN [exc |-> NoExc,
              status |-> <<"Status: Clocked in: ">> \o clock_in.v \o <<" (">> \o time_str \o <<" left)">>,
              tooltip |-> <<"CLOCK ">> \o time_str \o <<" remaining of ">> \o StrInt(workday_hours)
                              \o <<"h workday">>]
        ELSE [exc |-> NoExc,
              status |-> <<"Status: Clocked in: ">> \o clock_in.v \o <<" (overtime!)">>,
              tooltip |-> <<ICON_OVERTIME, "Working overtime since ">> \o clock_in.v]

\* the status and the tooltip for a shift snapshot on a working day
shift_status(ts, workday_hours, t, st, tt) ==
    IF ts.has_shift
    THEN IF Truthy(ts.clock_out)
         THEN [exc |-> NoExc,
               status |-> <<"Status: Clocked: ">> \o PyStr(ts.clock_in) \o <<" - ">> \o PyStr(ts.clock_out),
               tooltip |-> <<ICON_COMPLETED, "Done for today: ">> \o PyStr(ts.clock_in)
                               \o <<" - ">> \o PyStr(ts.clock_out)]
         ELSE open_shift_status(ts.clock_in, workday_hours, t, st, tt)
    ELSE [exc |-> NoExc, status |-> <<"Status: Not clocked in today">>,
          tooltip |-> <<ICON_WARNING, "Ready to clock in (not clocked in yet)">>]

ErrorStatus == <<"Status: Error fetching data">>
ErrorTooltip == <<ICON_ERROR, "Error fetching data">>

\* ClockInTimeApp.update_status: the result is [exc, reqs, status, tooltip]; ok1 and ok2
\* say whether the calendar and the shifts request come back; get_workday_hours() is
\* the default, the application never stores another value
update_status(c, cal, feed, t, ok1, ok2, st, tt) ==
    LET sw == should_work_today(c, cal, ok1)
        gs == get_today_status(c, feed, ok2)
        ss == shift_status(gs.ret, DEFAULT_WORKDAY_HOURS, t, st, tt)
    IN  IF ~c.present
        THEN [exc |-> NoExc, reqs |-> <<>>, status |-> <<"Status: Not connected">>,
              tooltip |-> <<"ClockInTime - Not connected">>]
        ELSE IF sw.exc # NoExc
        THEN IF Caught(sw.exc)
             THEN [exc |-> NoExc, reqs |-> sw.reqs, status |-> ErrorStatus, tooltip |-> ErrorTooltip]
             ELSE [exc |-> sw.exc, reqs |-> sw.reqs, status |-> st, tooltip |-> tt]
        ELSE IF ~sw.ret.should_work
        THEN [exc |-> NoExc, reqs |-> sw.reqs, status |-> <<"Status: ">> \o sw.ret.reason,
              tooltip |-> <<ICON_NON_WORKING_DAY>> \o sw.ret.reason]
        ELSE IF gs.exc # NoExc
        THEN [exc |-> NoExc, reqs |-> sw.reqs \o gs.reqs, status |-> ErrorStatus,
              tooltip |-> ErrorTooltip]
        ELSE [exc |-> ss.exc, reqs |-> sw.reqs \o gs.reqs, status |-> ss.status,
              tooltip |-> ss.tooltip]

\* what a handler leaves behind: the exception that escapes it, the requests it sent,
\* the remote shifts feed, the status, the tooltip, and what its write came to
\* ("none" when it sent none, "true", "false" or "raised")
Outcome(exc, reqs, feed, st, tt, write) ==
    [exc |-> exc, reqs |-> reqs, shifts |-> feed, status |-> st, tooltip |-> tt, write |-> write]

\* a handler that sends its write a second time when the first returned False or raised
write_and_update_Retry(c, ep, cal, feed, t, k, fail, ws, st, tt, reqs) ==
    LET resp == [exc |-> fail = k, status |-> ws]
        w == clock_now(c, ep, t, resp)
        after == IF ~Accepted(resp) THEN feed
                 ELSE IF ep = CLOCK_IN THEN RemoteClockIn(feed, t) ELSE RemoteClockOut(feed, t)
        us == update_status(c, cal, after, t, fail # k + 1, fail # k + 2, st, tt)
    IN  IF w.exc # NoExc
        THEN Outcome(IF Caught(w.exc) THEN NoExc ELSE w.exc, reqs \o w.reqs \o w.reqs, feed, st, tt,
                     "raised")
        ELSE IF w.ret
        THEN Outcome(IF Caught(us.exc) THEN NoExc ELSE us.exc, reqs \o w.reqs \o us.reqs,
                     after, us.status, us.tooltip, "true")
        ELSE Outcome(NoExc, reqs \o w.reqs \o w.reqs, after, st, tt, "false")

\* "if self.factorial_client.clock_in_now(): self.update_status()" of handle_login and
\* handle_wake, and the same with clock_out_now in handle_sleep; k is the number of
\* the write among the handler's requests, fail the number of the request that fails
write_and_update(c, ep, cal, feed, t, k, fail, ws, st, tt, reqs) ==
    LET resp == [exc |-> fail = k, status |-> ws]
        w == clock_now(c, ep, t, resp)
        after == IF ~Accepted(resp) THEN feed
                 ELSE IF ep = CLOCK_IN THEN RemoteClockIn(feed, t) ELSE RemoteClockOut(feed, t)
        us == update_status(c, cal, after, t, fail # k + 1, fail # k + 2, st, tt)
    IN  IF w.exc # NoExc
        THEN Outcome(IF Caught(w.exc) THEN NoExc ELSE w.exc, reqs \o w.reqs, feed, st, tt, "raised")
        ELSE IF w.ret
        THEN Outcome(IF Caught(us.exc) THEN NoExc ELSE us.exc, reqs \o w.reqs \o us.reqs,
                     after, us.status, us.tooltip, "true")
        ELSE Outcome(NoExc, reqs \o w.reqs, after, st, tt, "false")

\* ClockInTimeApp.handle_login
handle_login(c, cal, feed, t, fail, ws, st, tt) ==
    LET sw == should_work_today(c, cal, fail # 1)
    IN  IF ~c.present
        THEN Outcome(NoExc, <<>>, feed, st, tt, "none")
        ELSE IF sw.exc # NoExc
        THEN Outcome(IF Caught(sw.exc) THEN NoExc ELSE sw.exc, sw.reqs, feed, st, tt, "none")
        ELSE IF ~sw.ret.should_work
        THEN Outcome(NoExc, sw.reqs, feed, st, <<"ClockInTime - ">> \o sw.ret.reason, "none")
        ELSE write_and_update(c, CLOCK_IN, cal, feed, t, 2, fail, ws, st, tt, sw.reqs)

\* handle_sleep: "if not has_shift or clock_out: return"
no_open_shift(ts) == ~ts.has_shift \/ Truthy(ts.clock_out)

\* ClockInTimeApp.handle_sleep
handle_sleep(c, cal, feed, t, fail, ws, st, tt) ==
    LET gs == get_today_status(c, feed, fail # 1)
    IN  IF ~c.present
        THEN Outcome(NoExc, <<>>, feed, st, tt, "none")
        ELSE IF gs.exc # NoExc
        THEN Outcome(IF Caught(gs.exc) THEN NoExc ELSE gs.exc, gs.reqs, feed, st, tt, "none")
        ELSE IF no_open_shift(gs.ret)
        THEN Outcome(NoExc, gs.reqs, feed, st, tt, "none")
        ELSE write_and_update(c, CLOCK_OUT, cal, feed, t, 2, fail, ws, st, tt, gs.reqs)

\* the test with the negation lost
already_clocked_in_Lost(ts) == ts.has_shift /\ Truthy(ts.clock_out)

\* handle_wake: "if has_shift and not clock_out: return"
already_clocked_in(ts) == ts.has_shift /\ ~Truthy(ts.clock_out)

\* ClockInTimeApp.handle_wake
handle_wake(c, cal, feed, t, fail, ws, st, tt) ==
    LET sw == should_work_today(c, cal, fail # 1)
        gs == get_today_status(c, feed, fail # 2)
    IN  IF ~c.present
        THEN Outcome(NoExc, <<>>, feed, st, tt, "none")
        ELSE IF sw.exc # NoExc
        THEN Outcome(IF Caught(sw.exc) THEN NoExc ELSE sw.exc, sw.reqs, feed, st, tt, "none")
        ELSE IF ~sw.ret.should_work
        THEN Outcome(NoExc, sw.reqs, feed, st, <<"ClockInTime - ">> \o sw.ret.reason, "none")
        ELSE IF gs.exc # NoExc
        THEN Outcome(IF Caught(gs.exc) THEN NoExc ELSE gs.exc, sw.reqs \o gs.reqs, feed, st, tt, "none")
        ELSE IF already_clocked_in(gs.ret)
        THEN Outcome(NoExc, sw.reqs \o gs.reqs, feed, st, tt, "none")
        ELSE write_and_update(c, CLOCK_IN, cal, feed, t, 3, fail, ws, st, tt, sw.reqs \o gs.reqs)

\* ClockInTimeApp.login_to_factorial with stored credentials: the result is
\* [exc, reqs, client, status, tooltip, shown]; a failed login is caught and its
\* error shown in the "Login Failed" box
login_to_factorial(page, result, periods, cal, feed, t, fail, st, tt) ==
    LET lg == login(NewClient, page, result, periods)
        us == update_status(lg.client, cal, feed, t, fail # 1, fail # 2, st,
                            <<"ClockInTime - Connected">>)
    IN  IF lg.exc # NoExc
        THEN [exc |-> NoExc, reqs |-> lg.reqs, client |-> lg.client, status |-> st, tooltip |-> tt,
              shown |-> lg.exc]
        ELSE [exc |-> IF Caught(us.exc) THEN NoExc ELSE us.exc, reqs |-> lg.reqs \o us.reqs,
              client |-> lg.client, status |-> us.status, tooltip |-> us.tooltip, shown |-> NoExc]

----------------------------------------------------------------------------
(* The feeds and the clock the model starts from *)

T0900 == <<"0", "9", ":", "0", "0">>
T1325 == <<"1", "3", ":", "2", "5">>
TodayDate == <<"2", "0", "2", "5", "-", "1", "0", "-", "1", "5">>
BadDate == <<"2", "0", "2", "5", "-", "1", "3", "-", "4", "5">>

Times == { <<13, 25>>, <<18, 30>> }

InitShifts ==
    { <<>>,
      <<Shift(OtherDay, JStr(T0900), JStr(T1325))>>,
      <<Shift(Today, JStr(T0900), JNull)>>,
      <<Shift(Today, JStr(T0900), JStr(T1325))>>,
      <<Shift(Today, JNull, JNull)>>,
      <<Shift(OtherDay, JStr(T0900), JNull), Shift(Today, JStr(T0900), JNull)>> }

Day(day, is_leave, leave_name, is_laborable, date) ==
    [day |-> JInt(day), is_leave |-> is_leave, leave_name |-> leave_name,
     is_laborable |-> is_laborable, date |-> date]

WorkingDay == Day(Today, JBool(FALSE), JNull, JBool(TRUE), JStr(TodayDate))
LeaveDay == Day(Today, JBool(TRUE), JStr(<<"Vacation">>), JBool(TRUE), JStr(TodayDate))

Calendars ==
    { <<>>,
      <<WorkingDay>>,
      <<LeaveDay>>,
      <<Day(OtherDay, JBool(TRUE), JStr(<<"Sick">>), JBool(FALSE), JMissing), WorkingDay>>,
      <<Day(Today, JBool(FALSE), JMissing, JBool(FALSE), JStr(TodayDate))>>,
      <<Day(Today, JBool(FALSE), JMissing, JBool(FALSE), JStr(BadDate))>>,
      <<Day(Today, JBool(TRUE), JStr(<<"Vacation">>), JBool(FALSE), JStr(TodayDate))>>,
      <<Day(Today, JBool(TRUE), JNull, JBool(TRUE), JStr(TodayDate))>>,
      <<Day(Today, JBool(TRUE), JMissing, JBool(TRUE), JStr(TodayDate))>>,
      <<Day(Today, JMissing, JMissing, JMissing, JMissing)>>,
      <<Day(OtherDay, JBool(TRUE), JStr(<<"Sick">>), JBool(FALSE), JMissing)>>,
      <<LeaveDay, WorkingDay>> }

\* the calendars the signals are handled under: a working day, a leave day, a
\* non-working day and a non-working day whose date is no date
SignalCalendars ==
    { <<WorkingDay>>,
      <<LeaveDay>>,
      <<Day(Today, JBool(FALSE), JMissing, JBool(FALSE), JStr(TodayDate))>>,
      <<Day(Today, JBool(FALSE), JMissing, JBool(FALSE), JStr(BadDate))>> }

\* the answers of the service to a write that the signal handlers tell apart
SignalWriteStatuses == {200, 204, 422}

----------------------------------------------------------------------------
(* Observation of the operations *)

NoShiftToday(feed) == \A i \in 1..Len(feed) : ~IsToday(feed[i])
HasOpenShift(feed) == \E i \in 1..Len(feed) : IsOpen(feed[i])

Sent(reqs, ep) == Cardinality({ i \in 1..Len(reqs) : reqs[i].ep = ep })

\* an operation went through: every request it sent came back, nothing was raised
\* and its write, when it sent one, returned True
WentThrough(o) == o.exc = NoExc /\ o.inp.fail = 0 /\ o.ret \in {"none", "true"}

\* the operations of the event sources
MonitorOps ==
    {"on_sleep", "on_wake", "on_login", "sleep_notification", "wake_notification", "detect_login"}

\* for an operation of the event sources, through says that its callback did not
\* raise and fired that it was called; for a login attempt from the menu, through
\* says that login() returned and early that it raised before the periods request;
\* held says that the operation began with a client that was not logged in
Summary(o) ==
    [op |-> o.op, noshift |-> NoShiftToday(o.pre), ins |-> Sent(o.reqs, CLOCK_IN),
     outs |-> Sent(o.reqs, CLOCK_OUT),
     through |-> IF o.op \in {"login", "sleep", "wake", "update"} THEN WentThrough(o)
                 ELSE IF o.op \in MonitorOps THEN o.inp.raises = NoExc
                 ELSE IF o.op = "credentials" THEN o.ret = NoExc
                 ELSE FALSE,
     fired |-> IF o.op \in MonitorOps THEN o.ret ELSE FALSE,
     early |-> o.op = "credentials" /\ o.ret # NoExc /\ Sent(o.reqs, PERIODS) = 0,
     held |-> o.client.present /\ ~o.client.logged_in]

\* what reached a handler from the network: the number of the request that failed,
\* 0 when every request it sent came back
HandlerInp(fail, reqs) == [fail |-> IF fail <= Len(reqs) THEN fail ELSE 0]

\* the answers that reach login, one for each request it sends: the page alone when
\* login stops at it, the page and the result when it stops at the result
NoResult == [exc |-> FALSE, status |-> 0, banner |-> JNull]
NoPeriods == [exc |-> FALSE, status |-> 0, json |-> <<>>]
PageStops(page) == page.exc \/ raise_for_status(page.status) \/ ~csrf_match(page)
ResultStops(result) == result.exc \/ raise_for_status(result.status) \/ error_match(result)
LoginAnswers ==
    { [page |-> p, result |-> NoResult, periods |-> NoPeriods] : p \in { x \in SignInPages : PageStops(x) } }
    \cup { [page |-> p, result |-> r, periods |-> NoPeriods] :
             p \in { x \in SignInPages : ~PageStops(x) }, r \in { x \in SignInResults : ResultStops(x) } }
    \cup { [page |-> p, result |-> r, periods |-> q] :
             p \in { x \in SignInPages : ~PageStops(x) }, r \in { x \in SignInResults : ~ResultStops(x) },
             q \in PeriodsResults }

----------------------------------------------------------------------------
(* The application: construction, then signals, the refresh timer and the menu *)

\* Config.__init__ on a configuration file that stores no workday hours: the value
\* in self._settings and the value in config.json
NoSettings == [workday_hours |-> JMissing, file |-> JMissing]

\* MacEventMonitor.__init__ and LoginEventDetector.__init__
NewMonitor == [on_sleep_callback |-> FALSE, on_wake_callback |-> FALSE]
NewDetector == [on_login_callback |-> FALSE, login_detected |-> FALSE]

\* ClockInTimeApp.__init__ registers handle_sleep, handle_wake and handle_login
AppMonitor == [on_sleep_callback |-> TRUE, on_wake_callback |-> TRUE]
AppDetector == [on_login_callback |-> TRUE, login_detected |-> FALSE]

\* ClockInTimeApp.__init__: with stored credentials login_to_factorial has run (and
\* construction got past it); without them the credentials dialog was cancelled
Init ==
    \E creds \in BOOLEAN, a \in LoginAnswers, fail \in 0..2 :
        /\ shifts \in InitShifts
        /\ calendar_days \in SignalCalendars
        /\ now \in Times
        /\ \E r \in { login_to_factorial(a.page, a.result, a.periods, calendar_days, shifts, now, fail,
                                         <<"Status: Initializing...">>,
                                         <<"ClockInTime - Initializing...">>) } :
              /\ creds => r.exc = NoExc
              /\ factorial_client = IF creds THEN r.client ELSE NoClient
              /\ status = IF creds THEN r.status ELSE <<"Status: Initializing...">>
              /\ tooltip = IF creds THEN r.tooltip ELSE <<"ClockInTime - Initializing...">>
        /\ settings = NoSettings
        /\ event_monitor = AppMonitor
        /\ login_detector = AppDetector
        /\ last = Op("init", NoClient, shifts, <<>>, <<>>, NoExc, <<>>)
        /\ trace = <<>>

\* a handler that drops the session when its write did not return True
Handled_Logout(name, res, fail, ws) ==
  \E r \in {res} :
    /\ shifts' = r.shifts
    /\ status' = r.status
    /\ tooltip' = r.tooltip
    /\ factorial_client' = IF r.write \in {"false", "raised"} THEN NewClient ELSE factorial_client
    /\ last' = Op(name, factorial_client, shifts, HandlerInp(fail, r.reqs), r.reqs, r.exc, r.write)
    /\ trace' = Append(trace, Summary(last'))
    /\ UNCHANGED <<calendar_days, now, services>>

\* a handler that builds a client when the application holds none
Handled_Connecting(name, res, fail, ws) ==
  \E r \in {res} :
    /\ shifts' = r.shifts
    /\ status' = r.status
    /\ tooltip' = r.tooltip
    /\ factorial_client' = IF factorial_client.present THEN factorial_client ELSE NewClient
    /\ last' = Op(name, factorial_client, shifts, HandlerInp(fail, r.reqs), r.reqs, r.exc, r.write)
    /\ trace' = Append(trace, Summary(last'))
    /\ UNCHANGED <<calendar_days, now, services>>

\* a signal handler runs to its end
Handled(name, res, fail, ws) ==
  \E r \in {res} :
    /\ shifts' = r.shifts
    /\ status' = r.status
    /\ tooltip' = r.tooltip
    /\ last' = Op(name, factorial_client, shifts, HandlerInp(fail, r.reqs), r.reqs, r.exc, r.write)
    /\ trace' = Append(trace, Summary(last'))
    /\ UNCHANGED <<factorial_client, calendar_days, now, services>>

\* the Login signal: LoginEventDetector calls handle_login
HandleLogin ==
    /\ Len(trace) < MaxOps
    /\ \E fail \in 0..4, ws \in SignalWriteStatuses :
          Handled("login",
                  handle_login(factorial_client, calendar_days, shifts, now, fail, ws, status, tooltip),
                  fail, ws)

\* the Sleep signal: MacEventMonitor calls handle_sleep
HandleSleep ==
    /\ Len(trace) < MaxOps
    /\ \E fail \in 0..4, ws \in SignalWriteStatuses :
          Handled("sleep",
                  handle_sleep(factorial_client, calendar_days, shifts, now, fail, ws, status, tooltip),
                  fail, ws)

\* the Wake signal: MacEventMonitor calls handle_wake
HandleWake ==
    /\ Len(trace) < MaxOps
    /\ \E fail \in 0..5, ws \in SignalWriteStatuses :
          Handled("wake",
                  handle_wake(factorial_client, calendar_days, shifts, now, fail, ws, status, tooltip),
                  fail, ws)

\* the status timer: update_status
UpdateStatus ==
    /\ Len(trace) < MaxOps
    /\ \E fail \in 0..2 :
          \E r \in { update_status(factorial_client, calendar_days, shifts, now, fail # 1, fail # 2,
                                   status, tooltip) } :
              /\ status' = r.status
              /\ tooltip' = r.tooltip
              /\ last' = Op("update", factorial_client, shifts, HandlerInp(fail, r.reqs),
                            r.reqs, r.exc, "none")
              /\ trace' = Append(trace, Summary(last'))
              /\ UNCHANGED <<factorial_client, shifts, calendar_days, now, services>>

\* "Change Credentials...": show_credentials_dialog accepted, then login_to_factorial
ChangeCredentials ==
    /\ Len(trace) < MaxOps
    /\ \E a \in LoginAnswers, fail \in 0..2 :
          \E r \in { login_to_factorial(a.page, a.result, a.periods, calendar_days, shifts, now, fail,
                                        status, tooltip) } :
              /\ factorial_client' = r.client
              /\ status' = r.status
              /\ tooltip' = r.tooltip
              /\ last' = Op("credentials", factorial_client, shifts, <<>>, r.reqs, r.exc, r.shown)
              /\ trace' = Append(trace, Summary(last'))
              /\ UNCHANGED <<shifts, calendar_days, now, services>>

\* the signals and the timer, with the session construction left
Next ==
    \/ HandleLogin
    \/ HandleSleep
    \/ HandleWake
    \/ UpdateStatus

Spec == Init /\ [][Next]_vars

\* the same with the credentials changed from the menu
SessionNext ==
    \/ Next
    \/ ChangeCredentials

SessionSpec == Init /\ [][SessionNext]_vars

----------------------------------------------------------------------------
(* The client alone: a FactorialClient whose methods are called in any order *)

ClientInit ==
    /\ factorial_client = NewClient
    /\ shifts \in InitShifts
    /\ calendar_days \in Calendars
    /\ now \in Times
    /\ status = <<>>
    /\ tooltip = <<>>
    /\ settings = NoSettings
    /\ event_monitor = NewMonitor
    /\ login_detector = NewDetector
    /\ last = Op("init", NoClient, shifts, <<>>, <<>>, NoExc, <<>>)
    /\ trace = <<>>

\* a method of the client returns or raises
Called(name, inp, res, feed) ==
  \E r \in {res} :
    /\ shifts' = feed
    /\ last' = Op(name, factorial_client, shifts, inp, r.reqs, r.exc, r.ret)
    /\ trace' = Append(trace, Summary(last'))
    /\ UNCHANGED <<calendar_days, now, status, tooltip, services>>

Login ==
    /\ Len(trace) < MaxOps
    /\ \E a \in LoginAnswers :
          \E r \in { login(factorial_client, a.page, a.result, a.periods) } :
              /\ factorial_client' = r.client
              /\ Called("client.login", a,
                        [exc |-> r.exc, reqs |-> r.reqs, ret |-> r.exc = NoExc], shifts)

ClockInNow ==
    /\ Len(trace) < MaxOps
    /\ \E exc \in BOOLEAN, ws \in WriteStatuses :
          LET resp == [exc |-> exc, status |-> IF exc THEN 0 ELSE ws]
          IN  \E r \in { clock_in_now(factorial_client, now, resp) } :
              /\ Called("clock_in_now", IF r.reqs = <<>> THEN <<>> ELSE resp, r,
                        IF r.reqs # <<>> /\ Accepted(resp) THEN RemoteClockIn(shifts, now) ELSE shifts)
              /\ UNCHANGED factorial_client

ClockOutNow ==
    /\ Len(trace) < MaxOps
    /\ \E exc \in BOOLEAN, ws \in WriteStatuses :
          LET resp == [exc |-> exc, status |-> IF exc THEN 0 ELSE ws]
          IN  \E r \in { clock_out_now(factorial_client, now, resp) } :
              /\ Called("clock_out_now", IF r.reqs = <<>> THEN <<>> ELSE resp, r,
                        IF r.reqs # <<>> /\ Accepted(resp) THEN RemoteClockOut(shifts, now) ELSE shifts)
              /\ UNCHANGED factorial_client

ShouldWorkToday ==
    /\ Len(trace) < MaxOps
    /\ \E ok \in BOOLEAN :
          \E r \in { should_work_today(factorial_client, calendar_days, ok) } :
              /\ Called("should_work_today", IF r.reqs = <<>> THEN <<>> ELSE <<ok>>, r, shifts)
              /\ UNCHANGED factorial_client

GetTodayStatus ==
    /\ Len(trace) < MaxOps
    /\ \E ok \in BOOLEAN :
          \E r \in { get_today_status(factorial_client, shifts, ok) } :
              /\ Called("get_today_status", IF r.reqs = <<>> THEN <<>> ELSE <<ok>>, r, shifts)
              /\ UNCHANGED factorial_client

ClientNext ==
    \/ Login
    \/ ClockInNow
    \/ ClockOutNow
    \/ ShouldWorkToday
    \/ GetTodayStatus

ClientSpec == ClientInit /\ [][ClientNext]_vars

----------------------------------------------------------------------------
(* Properties of the signal handlers *)

\* today is a day should_work_today reports as a working day
EligibleDay ==
    LET i == FirstToday(calendar_days)
    IN  i = 0 \/ (day_decision(calendar_days[i]).exc = NoExc /\ day_decision(calendar_days[i]).ret.should_work)

RECURSIVE ClockInsOf(_)
ClockInsOf(tr) == IF tr = <<>> THEN 0 ELSE tr[1].ins + ClockInsOf(Tail(tr))

\* the client is logged in and its login resolved the employee and the period
Resolved(c) == c.present /\ c.logged_in /\ c.employee_id.t = "int" /\ c.period_id.t = "int"

\* C1: neither handle_login nor handle_wake sends a clock-in while the remote feed
\* holds an open shift for today (clock-in set, clock-out not set); stated here for
\* a client whose login resolved its context.
C1_NoClockInWhileOpen ==
    (last.op \in {"login", "wake"} /\ Resolved(last.client) /\ HasOpenShift(last.pre))
    => Sent(last.reqs, CLOCK_IN) = 0

\* C2: on an eligible day that starts with no shift for today, any sequence of Login
\* and Wake signals sends at most one clock-in in total; stated here for a client
\* whose login resolved its context and for the sequences in which every request
\* came back and every write returned True.
C2_AtMostOneClockIn ==
    ( /\ trace # <<>>
      /\ trace[1].noshift
      /\ Resolved(factorial_client)
      /\ EligibleDay
      /\ \A i \in 1..Len(trace) : trace[i].op \in {"login", "wake"} /\ trace[i].through )
    => ClockInsOf(trace) <= 1

\* C3: a Sleep signal handled when today has no open shift (no record for today, a
\* record already clocked out, or a record never clocked in) sends no clock-out.
C3_NoClockOutWithoutOpenShift ==
    (last.op = "sleep" /\ Resolved(last.client) /\ ~HasOpenShift(last.pre))
    => Sent(last.reqs, CLOCK_OUT) = 0

\* C4: once the remote feed holds a shift record for today, open or closed, no
\* handler sends a further clock-in.
C4_OneShiftPerDay ==
    (last.op \in {"login", "wake", "sleep"} /\ Resolved(last.client) /\ ~NoShiftToday(last.pre))
    => Sent(last.reqs, CLOCK_IN) = 0

\* C5: two Wake signals in a row on an eligible day that starts with no shift for
\* today: when the clock-in of the first is accepted (and so is in the feed the
\* second reads), the second sends no clock-in.
C5_SecondWakeNoClockIn ==
    \A i \in 1..(Len(trace) - 1) :
        ( /\ trace[i].op = "wake" /\ trace[i].noshift /\ trace[i].ins = 1 /\ trace[i].through
          /\ trace[i + 1].op = "wake"
          /\ EligibleDay )
        => trace[i + 1].ins = 0

\* the second Wake read the calendar and the shifts, found the first Wake's shift and stopped
C5_Witness ==
    /\ Len(trace) = 2
    /\ trace[1].op = "wake" /\ trace[1].noshift /\ trace[1].ins = 1 /\ trace[1].through
    /\ EligibleDay
    /\ last.op = "wake" /\ last.inp.fail = 0
    /\ Sent(last.reqs, SHIFTS) = 1 /\ Sent(last.reqs, CLOCK_IN) = 0
    /\ HasOpenShift(last.pre) /\ shifts = last.pre

----------------------------------------------------------------------------
(* Properties of the client *)

GuardedOps == {"clock_in_now", "clock_out_now", "should_work_today", "get_today_status"}

\* C6: called on a client that is not authenticated, each of clock_in_now,
\* clock_out_now, should_work_today and get_today_status raises
\* AuthenticationError and sends no request; the remote feed is left as it was.
C6_UnauthenticatedFailsFast ==
    (last.op \in GuardedOps /\ ~last.client.logged_in)
    => /\ last.exc.type = "AuthenticationError"
       /\ last.reqs = <<>>
       /\ shifts = last.pre

\* a guarded operation called after a login that failed before marking the session
C6_Witness ==
    /\ Len(trace) = 2
    /\ trace[1].op = "client.login"
    /\ last.op = "clock_out_now"
    /\ ~last.client.logged_in
    /\ last.exc = NotLoggedIn
    /\ last.reqs = <<>>

\* C7: whenever _logged_in is true, employee_id and period_id are both non-null.
C7_LoggedInHasContext ==
    factorial_client.logged_in
    => (factorial_client.employee_id.t # "null" /\ factorial_client.period_id.t # "null")

\* a 4xx or 5xx status
HttpError(code) == code >= 400 /\ code <= 599

\* the POST of the credentials is among the requests
Posted(reqs) == \E i \in 1..Len(reqs) : reqs[i].m = "POST" /\ reqs[i].ep = SIGN_IN

\* C8: when the sign-in page came back without an error status and without the
\* csrf-token pattern, login raises AuthenticationError, the credential POST is not
\* sent, and the client is left as it was: a client that was not authenticated is
\* still the client __init__ made, with no context resolved.
C8_NoTokenNoPost ==
    ( /\ last.op = "client.login"
      /\ ~last.inp.page.exc /\ ~HttpError(last.inp.page.status)
      /\ last.inp.page.csrf = JNull )
    => /\ last.exc.type = "AuthenticationError"
       /\ ~Posted(last.reqs)
       /\ Len(last.reqs) = 1
       /\ factorial_client = last.client
       /\ (~last.client.logged_in => factorial_client = NewClient)

\* login on a fresh client, page 200 without the token
C8_Witness ==
    /\ last.op = "client.login"
    /\ last.client = NewClient
    /\ ~last.inp.page.exc /\ last.inp.page.status = 200 /\ last.inp.page.csrf = JNull
    /\ last.exc = Exc("AuthenticationError", <<"Could not extract CSRF token">>)
    /\ factorial_client = NewClient

Non2xx(code) == code < 200 \/ code > 299

\* login got a request exception or a non-2xx status on the sign-in GET, or on the
\* POST when it was sent
Non2xxFailure ==
    /\ last.op = "client.login"
    /\ \/ last.inp.page.exc
       \/ Non2xx(last.inp.page.status)
       \/ (Posted(last.reqs) /\ (last.inp.result.exc \/ Non2xx(last.inp.result.status)))

\* login got a request exception or a 4xx/5xx status on the sign-in GET, or on the
\* POST when it was sent
ErrorStatusFailure ==
    /\ last.op = "client.login"
    /\ \/ last.inp.page.exc
       \/ HttpError(last.inp.page.status)
       \/ (Posted(last.reqs) /\ (last.inp.result.exc \/ HttpError(last.inp.result.status)))

\* login raised an APIError that is not an AuthenticationError and left the client
\* as it was, so a session that was not authenticated is still not authenticated
SurfacedAsAPIError ==
    /\ last.exc.type = "APIError"
    /\ ~IsInstance(last.exc.type, "AuthenticationError")
    /\ factorial_client = last.client
    /\ (~last.client.logged_in => ~factorial_client.logged_in)

\* C10 as stated: a request exception or a non-2xx status on the sign-in GET or
\* POST surfaces as an APIError that is not an AuthenticationError and leaves the
\* session unauthenticated.
C10_Non2xxIsAPIError == Non2xxFailure => SurfacedAsAPIError

\* C10 amended: a request exception or a 4xx/5xx status on the sign-in GET or POST
\* surfaces as an APIError that is not an AuthenticationError and leaves the client
\* as it was.
C10_ErrorStatusIsAPIError == ErrorStatusFailure => SurfacedAsAPIError

\* login on a fresh client whose credential POST was answered 500
C10_Witness ==
    /\ last.op = "client.login"
    /\ last.client = NewClient
    /\ Posted(last.reqs)
    /\ ~last.inp.result.exc /\ last.inp.result.status = 500
    /\ last.exc.type = "APIError"
    /\ factorial_client = NewClient

\* the periods request of login was sent and its answer came back without an error status
PeriodsAnswered ==
    /\ last.op = "client.login"
    /\ Sent(last.reqs, PERIODS) = 1
    /\ ~last.inp.periods.exc /\ ~HttpError(last.inp.periods.status)

\* entry i of the periods feed is for the current year and month
CurrentPeriod(feed, i) == Get(feed[i].year) = JInt(CurYear) /\ Get(feed[i].month) = JInt(CurMonth)

\* C11: context resolution takes employee_id and period_id from the first entry of
\* the periods feed whose year and month are the current ones; when the feed has no
\* such entry it raises APIError and leaves employee_id and period_id as they were.
C11_FirstMatchingPeriod ==
    PeriodsAnswered =>
        LET feed == last.inp.periods.json
        IN  IF \E i \in 1..Len(feed) : CurrentPeriod(feed, i)
            THEN \E i \in 1..Len(feed) :
                    /\ CurrentPeriod(feed, i)
                    /\ \A k \in 1..(i - 1) : ~CurrentPeriod(feed, k)
                    /\ factorial_client.employee_id = Get(feed[i].employee_id)
                    /\ factorial_client.period_id = Get(feed[i].id)
                    /\ last.exc = NoExc
            ELSE /\ last.exc.type = "APIError"
                 /\ factorial_client.employee_id = last.client.employee_id
                 /\ factorial_client.period_id = last.client.period_id

\* a feed whose second and third entries are both for the current month: the ids
\* are those of the second
C11_Witness ==
    /\ PeriodsAnswered
    /\ Len(last.inp.periods.json) = 3
    /\ ~CurrentPeriod(last.inp.periods.json, 1)
    /\ CurrentPeriod(last.inp.periods.json, 2)
    /\ CurrentPeriod(last.inp.periods.json, 3)
    /\ factorial_client.period_id = JInt(42)
    /\ factorial_client.employee_id = JInt(7)
    /\ last.inp.periods.json[3].id = JInt(43)

\* should_work_today was called on an authenticated client and its calendar request
\* came back
CalendarAnswered ==
    /\ last.op = "should_work_today"
    /\ last.client.logged_in
    /\ last.inp = <<TRUE>>

\* entry i is the first entry of the calendar feed whose day is today's day of month
TodaysEntry(i) ==
    /\ i \in 1..Len(calendar_days)
    /\ Get(calendar_days[i].day) = JInt(Today)
    /\ \A k \in 1..(i - 1) : Get(calendar_days[k].day) # JInt(Today)

\* the entry has a date: the key is there with a non-empty string
HasDate(e) == e.date.t = "str" /\ e.date.v # <<>>

Returned(should_work, reason) ==
    last.exc = NoExc /\ last.ret = [should_work |-> should_work, reason |-> reason]

\* C12: should_work_today decides on the first entry for today: is_leave set gives
\* not eligible whatever is_laborable; otherwise is_laborable unset gives not
\* eligible, the reason naming a weekday when the entry has a date and being the
\* generic one when it has none; otherwise eligible with reason "Working day".
C12_DecisionOrder ==
    (CalendarAnswered /\ Resolved(last.client)) =>
        \A i \in 1..Len(calendar_days) :
            TodaysEntry(i) =>
                LET e == calendar_days[i]
                IN  IF Truthy(Get(e.is_leave))
                    THEN last.exc = NoExc /\ ~last.ret.should_work
                    ELSE IF ~Truthy(Get(e.is_laborable))
                    THEN IF HasDate(e)
                         THEN \E d \in 1..7 : Returned(FALSE, <<"Non-working day: ", DayNames[d]>>)
                         ELSE Returned(FALSE, <<"Non-working day (weekend or holiday)">>)
                    ELSE Returned(TRUE, <<"Working day">>)

\* C13: on a leave day the reason is "Leave day: " followed by leave_name when it
\* is a non-empty string, and "Leave day: Leave" when leave_name is missing or null.
C13_LeaveReason ==
    (CalendarAnswered /\ Resolved(last.client)) =>
        \A i \in 1..Len(calendar_days) :
            (TodaysEntry(i) /\ Truthy(Get(calendar_days[i].is_leave))) =>
                LET name == calendar_days[i].leave_name
                IN  /\ (name.t = "str" /\ name.v # <<>>)
                        => Returned(FALSE, <<"Leave day: ">> \o name.v)
                    /\ name.t \in {"missing", "null"}
                        => Returned(FALSE, <<"Leave day: ", "Leave">>)

\* C14: when no entry of the calendar feed has today's day of month, the empty feed
\* included, should_work_today returns (True, "Working day (assumed)").
C14_AssumedWorkingDay ==
    (CalendarAnswered /\ \A i \in 1..Len(calendar_days) : Get(calendar_days[i].day) # JInt(Today))
    => Returned(TRUE, <<"Working day (assumed)">>)

\* a feed whose only entry is a leave day of another day
C14_Witness ==
    /\ CalendarAnswered
    /\ Len(calendar_days) = 1
    /\ Get(calendar_days[1].day) = JInt(OtherDay)
    /\ Truthy(Get(calendar_days[1].is_leave))
    /\ Returned(TRUE, <<"Working day (assumed)">>)

----------------------------------------------------------------------------
(* Properties of the handlers' failure handling *)

Writes(reqs) == Sent(reqs, CLOCK_IN) + Sent(reqs, CLOCK_OUT)

\* C16: one call of handle_login, handle_wake or handle_sleep sends at most one
\* write (clock-in or clock-out), also when that write returns False or raises.
C16_AtMostOneWrite ==
    last.op \in {"login", "wake", "sleep"} => Writes(last.reqs) <= 1

\* a Sleep whose clock-out raised: one write, and nothing sent after it
C16_Witness ==
    /\ last.op = "sleep"
    /\ last.ret = "raised"
    /\ Writes(last.reqs) = 1
    /\ last.reqs[Len(last.reqs)].ep = CLOCK_OUT

\* a read of the handler failed: its request did not come back (APIError), or the
\* client is not logged in (AuthenticationError from the guard)
ReadFailed ==
    /\ last.op \in {"login", "wake", "sleep"}
    /\ last.client.present
    /\ \/ ~last.client.logged_in
       \/ last.inp.fail = 1
       \/ (last.op = "wake" /\ last.inp.fail = 2)

\* C17: when should_work_today or get_today_status fails with APIError or
\* AuthenticationError inside handle_login, handle_wake or handle_sleep, the handler
\* sends no clock-in and no clock-out, nothing is raised out of it, and the remote
\* feed and the client are as they were for the next signal.
C17_FailedReadNoWrite ==
    ReadFailed
    => /\ Writes(last.reqs) = 0
       /\ last.ret = "none"
       /\ last.exc = NoExc
       /\ shifts = last.pre
       /\ factorial_client = last.client

\* a Wake on a working day whose shifts request failed
C17_Witness ==
    /\ last.op = "wake"
    /\ Resolved(last.client)
    /\ last.inp.fail = 2
    /\ Len(last.reqs) = 2
    /\ last.reqs[2].ep = SHIFTS
    /\ last.exc = NoExc
    /\ shifts = last.pre

\* C18: update_status lets no exception escape, whatever the remote answers: a
\* failed read, a malformed calendar date, a shift for today with neither clock-in
\* nor clock-out.
C18_UpdateNeverRaises ==
    (last.op = "update" /\ Resolved(last.client)) => last.exc = NoExc

----------------------------------------------------------------------------
(* The time utilities alone: the functions of utils/time_utils.py applied to *)
(* clock-in times, workday lengths and clocks of the same day                *)

\* the clocks <<hour, minute>> the functions are applied at, and the clock-in times
ClockTimes == { <<9, 0>>, <<10, 45>>, <<13, 25>>, <<17, 0>>, <<18, 30>> }
ClockIns == { <<9, 0>>, <<13, 25>> }
WorkdayHours == {1, 8, 24}
DisplayHours == {-1, 0, 1, 6}
DisplayMinutes == {0, 15, 45}

TimeInit ==
    /\ factorial_client = NoClient
    /\ shifts = <<>>
    /\ calendar_days = <<>>
    /\ now \in ClockTimes
    /\ status = <<>>
    /\ tooltip = <<>>
    /\ settings = NoSettings
    /\ event_monitor = NewMonitor
    /\ login_detector = NewDetector
    /\ last = Op("init", NoClient, shifts, <<>>, <<>>, NoExc, <<>>)
    /\ trace = <<>>

\* a function of time_utils returns
Returns(name, inp, ret) ==
  \E r \in {ret} :
    /\ last' = Op(name, factorial_client, shifts, inp, <<>>, NoExc, r)
    /\ trace' = Append(trace, Summary(last'))
    /\ UNCHANGED <<factorial_client, shifts, calendar_days, now, status, tooltip, services>>

CalculateRemainingHours ==
    /\ Len(trace) < MaxOps
    /\ \E ci \in ClockIns, w \in WorkdayHours :
          Returns("calculate_remaining_hours", [clock_in |-> ci, workday_hours |-> w],
                  remaining_minutes(strftime_HM(ci), w, now))

\* format_remaining_time applied to the result of calculate_remaining_hours
FormatRemainingTime ==
    /\ Len(trace) < MaxOps
    /\ \E ci \in ClockIns, w \in WorkdayHours :
          Returns("format_remaining_time", [clock_in |-> ci, workday_hours |-> w],
                  format_remaining_time(w, worked_minutes(strftime_HM(ci), now)))

FormatTimeDisplay ==
    /\ Len(trace) < MaxOps
    /\ \E h \in DisplayHours, m \in DisplayMinutes :
          Returns("format_time_display", [hours |-> h, minutes |-> m], format_time_display(h, m))

TimeNext ==
    \/ CalculateRemainingHours
    \/ FormatRemainingTime
    \/ FormatTimeDisplay

TimeSpec == TimeInit /\ [][TimeNext]_vars

\* the whole minutes from the clock-in time of the last call to the current clock
Elapsed == (now[1] * 60 + now[2]) - (last.inp.clock_in[1] * 60 + last.inp.clock_in[2])

\* C19: calculate_remaining_hours returns workday_hours minus the whole minutes
\* elapsed since clock-in divided by 60 (here in minutes: workday_hours * 60 minus
\* the minutes elapsed), for every clock-in time, clock and workday length.
C19_RemainingHours ==
    last.op = "calculate_remaining_hours"
    => last.ret = last.inp.workday_hours * 60 - Elapsed

\* clock-in 09:00, 8 hours, at 18:30: -1.5 hours
C19_Witness ==
    /\ last.op = "calculate_remaining_hours"
    /\ last.inp = [clock_in |-> <<9, 0>>, workday_hours |-> 8]
    /\ now = <<18, 30>>
    /\ last.ret = -90

\* str(n) of an integer between -99 and 99
PyInt(n) == IF n < 0 THEN <<"-">> \o StrInt(-n) ELSE StrInt(n)

\* C20: format_time_display renders "{m}m" exactly when hours is zero and
\* "{h}h {m}m" for every other hours value, negative ones included;
\* format_remaining_time splits a remaining time of R whole minutes (R >= 0 here)
\* into (R div 60, R mod 60).
C20_FormatTime ==
    /\ last.op = "format_time_display"
        => last.ret = IF last.inp.hours = 0
                      THEN StrInt(last.inp.minutes) \o <<"m">>
                      ELSE PyInt(last.inp.hours) \o <<"h ">> \o StrInt(last.inp.minutes) \o <<"m">>
    /\ (last.op = "format_remaining_time" /\ last.inp.workday_hours * 60 - Elapsed >= 0)
        => last.ret = << (last.inp.workday_hours * 60 - Elapsed) \div 60,
                         (last.inp.workday_hours * 60 - Elapsed) % 60 >>

----------------------------------------------------------------------------
(* The configuration alone: a Config (utils/config.py) whose workday hours are *)
(* read and set in any order                                                   *)

\* the values config.json may hold under "workday_hours" when Config loads it
StoredHours == { JMissing, JInt(6), JInt(8) }

\* the values set_workday_hours is called with
HoursInputs == {-1, 0, 1, 12, 24, 25}

\* Config.get_workday_hours: self.get("workday_hours", DEFAULT_WORKDAY_HOURS)
get_workday_hours(s) == GetDefault(s.workday_hours, JInt(DEFAULT_WORKDAY_HOURS))

\* Config.set: the value goes into self._settings, then _save_config writes the file
\* unless open() or json.dump fails (IOError is logged, not raised)
config_set(s, value, saved) ==
    [workday_hours |-> value, file |-> IF saved THEN value ELSE s.file]

\* Config.set_workday_hours: the result is [exc, settings]
set_workday_hours(s, hours, saved) ==
    IF hours < 1 \/ hours > 24
    THEN [exc |-> Exc("ValueError", <<"Workday hours must be between 1 and 24">>), settings |-> s]
    ELSE [exc |-> NoExc, settings |-> config_set(s, JInt(hours), saved)]

ConfigInit ==
    /\ factorial_client = NoClient
    /\ shifts = <<>>
    /\ calendar_days = <<>>
    /\ now \in Times
    /\ status = <<>>
    /\ tooltip = <<>>
    /\ \E v \in StoredHours : settings = [workday_hours |-> v, file |-> v]
    /\ event_monitor = NewMonitor
    /\ login_detector = NewDetector
    /\ last = Op("init", NoClient, shifts, <<>>, <<>>, NoExc, <<>>)
    /\ trace = <<>>

\* a method of Config returns or raises
Configured(name, inp, res, ret) ==
  \E r \in {res} :
    /\ settings' = r.settings
    /\ last' = Op(name, NoClient, shifts, inp, <<>>, r.exc, ret)
    /\ trace' = Append(trace, Summary(last'))
    /\ UNCHANGED <<factorial_client, shifts, calendar_days, now, status, tooltip, event_monitor,
                   login_detector>>

SetWorkdayHours ==
    /\ Len(trace) < MaxOps
    /\ \E hours \in HoursInputs, saved \in BOOLEAN :
          Configured("set_workday_hours",
                     [hours |-> hours, stored |-> settings.workday_hours, saved |-> saved],
                     set_workday_hours(settings, hours, saved), JNull)

GetWorkdayHours ==
    /\ Len(trace) < MaxOps
    /\ Configured("get_workday_hours", [hours |-> 0, stored |-> settings.workday_hours, saved |-> FALSE],
                  [exc |-> NoExc, settings |-> settings], get_workday_hours(settings))

ConfigNext ==
    \/ SetWorkdayHours
    \/ GetWorkdayHours

ConfigSpec == ConfigInit /\ [][ConfigNext]_vars

\* C21: set_workday_hours with a value outside 1..24 fails with ConfigurationError
\* and leaves the stored workday hours as they were; with a value inside 1..24 it
\* stores the value and get_workday_hours returns it from then on.
C21_WorkdayHoursRange ==
    last.op = "set_workday_hours" =>
        IF last.inp.hours \in 1..24
        THEN /\ last.exc = NoExc
             /\ settings.workday_hours = JInt(last.inp.hours)
             /\ get_workday_hours(settings) = JInt(last.inp.hours)
        ELSE /\ IsInstance(last.exc.type, "ConfigurationError")
             /\ settings.workday_hours = last.inp.stored

----------------------------------------------------------------------------
(* Properties of the handlers' reads, and of the refresh *)

IsWrite(rq) == rq.ep \in {CLOCK_IN, CLOCK_OUT}

\* request i of the handler is a write that follows a shifts read of the same
\* handler call with no other write between the two
ReadBefore(reqs, i) ==
    \E j \in 1..(i - 1) :
        /\ reqs[j].m = "GET" /\ reqs[j].ep = SHIFTS
        /\ \A k \in (j + 1)..(i - 1) : ~IsWrite(reqs[k])

\* C22: every clock-in or clock-out a handler sends follows, within the same call
\* of the handler and with no other write in between, a get_today_status read of
\* today's shift.
C22_ReadBeforeWrite ==
    last.op \in {"login", "wake", "sleep"}
    => \A i \in 1..Len(last.reqs) : IsWrite(last.reqs[i]) => ReadBefore(last.reqs, i)

\* C23: a Sleep signal handled while the remote holds an open shift for today, with
\* its reads coming back, sends exactly one clock-out; also when the feed holds an
\* earlier closed entry for today from an earlier Sleep/Wake cycle.
C23_SleepClosesOpenShift ==
    ( /\ last.op = "sleep"
      /\ Resolved(last.client)
      /\ HasOpenShift(last.pre)
      /\ last.inp.fail # 1 )
    => Sent(last.reqs, CLOCK_OUT) = 1

\* today's calendar entry makes should_work_today return False: a leave day, or a
\* day that is not laborable and whose date, when it has one, is a date
NotEligibleToday ==
    \E i \in 1..Len(calendar_days) :
        /\ TodaysEntry(i)
        /\ \/ Truthy(Get(calendar_days[i].is_leave))
           \/ /\ ~Truthy(Get(calendar_days[i].is_laborable))
              /\ (HasDate(calendar_days[i]) => ValidDate(calendar_days[i].date.v))

\* the shift snapshot handle_sleep decides on: the first entry of the feed for today
\* is there and has no clock-out
SnapshotOpen(feed) ==
    \E i \in 1..Len(feed) :
        /\ IsToday(feed[i])
        /\ \A k \in 1..(i - 1) : ~IsToday(feed[k])
        /\ ~Truthy(Get(feed[i].clock_out))

\* C24: on a day should_work_today reports as not eligible, handle_login and
\* handle_wake send no clock-in and no shifts read and put the reason in the
\* tooltip; handle_sleep asks for no calendar before it decides, and decides on the
\* shift snapshot alone.
C24_NotEligibleNoClockIn ==
    /\ ( /\ last.op \in {"login", "wake"}
         /\ last.client.present /\ last.client.logged_in
         /\ last.inp.fail # 1
         /\ NotEligibleToday )
       => /\ Sent(last.reqs, CLOCK_IN) = 0
          /\ Sent(last.reqs, SHIFTS) = 0
          /\ Len(last.reqs) = 1
          /\ tooltip = <<"ClockInTime - ">>
                         \o should_work_today(last.client, calendar_days, TRUE).ret.reason
    /\ ( /\ last.op = "sleep"
         /\ last.client.present /\ last.client.logged_in )
       => /\ last.reqs[1].ep = SHIFTS
          /\ \A i \in 1..Len(last.reqs) :
                last.reqs[i].ep = CALENDAR => \E j \in 1..(i - 1) : IsWrite(last.reqs[j])
          /\ last.inp.fail # 1 => (Sent(last.reqs, CLOCK_OUT) = 1 <=> SnapshotOpen(last.pre))

\* a Wake on a leave day: the calendar read alone, the reason in the tooltip
C24_Witness ==
    /\ last.op = "wake"
    /\ Resolved(last.client)
    /\ calendar_days = <<LeaveDay>>
    /\ last.reqs = <<Req("GET", CALENDAR, JInt(7))>>
    /\ tooltip = <<"ClockInTime - ", "Leave day: ", "Vacation">>

----------------------------------------------------------------------------
(* The application and its client together: the signals, the timer, and the  *)
(* client's methods called on the application's client                       *)

\* construction that left the application with a client
FrameInit == Init /\ factorial_client.present

FrameNext ==
    \/ (Len(trace) < MaxFrameOps /\ HandleLogin)
    \/ (Len(trace) < MaxFrameOps /\ HandleSleep)
    \/ (Len(trace) < MaxFrameOps /\ HandleWake)
    \/ (Len(trace) < MaxFrameOps /\ UpdateStatus)
    \/ (Len(trace) < MaxFrameOps /\ Login)
    \/ (Len(trace) < MaxFrameOps /\ ClockInNow)
    \/ (Len(trace) < MaxFrameOps /\ ClockOutNow)
    \/ (Len(trace) < MaxFrameOps /\ ShouldWorkToday)
    \/ (Len(trace) < MaxFrameOps /\ GetTodayStatus)

FrameSpec == FrameInit /\ [][FrameNext]_vars

\* the operations that are not login
FramedOps == GuardedOps \cup {"login", "sleep", "wake", "update"}

\* C25: clock_in_now, clock_out_now, should_work_today, get_today_status and the
\* signal handlers leave the client's _logged_in, employee_id and period_id as they
\* were, whether they succeed, return False or raise; FactorialClient.login is the
\* only operation that changes them.
C25_OnlyLoginChangesSession ==
    /\ last.op \in FramedOps => factorial_client = last.client
    /\ (last.op # "init" /\ factorial_client # last.client) => last.op = "client.login"

\* clock_out_now raised on its request and the session is the resolved one it was
C25_Witness ==
    /\ last.op = "clock_out_now"
    /\ last.exc.type = "APIError"
    /\ Resolved(last.client)
    /\ factorial_client = last.client

\* C26: every failure of should_work_today that comes from the remote's answer, a
\* non-laborable entry for today whose date is no YYYY-MM-DD date included, reaches
\* the caller as an APIError and as no other exception type.
C26_ReadFailureIsAPIError ==
    (last.op = "should_work_today" /\ last.client.logged_in /\ last.exc # NoExc)
    => IsInstance(last.exc.type, "APIError")

\* both reads of the last refresh returned: the requests came back and
\* should_work_today and get_today_status raised nothing
ReadsReturn ==
    /\ last.inp.fail = 0
    /\ should_work_today(last.client, calendar_days, TRUE).exc = NoExc
    /\ get_today_status(last.client, last.pre, TRUE).exc = NoExc

\* the status a refresh shows when it is given nothing of the refresh before it
FreshStatus ==
    update_status(factorial_client, calendar_days, shifts, now, TRUE, TRUE, <<>>, <<>>).status

\* C27: when a refresh ended in the error status, the next refresh whose reads come
\* back shows the status its own reads determine: the error status is gone and
\* nothing of the earlier refresh is left in it.
C27_RefreshSelfHeals ==
    [][ ( /\ last.op = "update" /\ last.inp.fail # 0 /\ status = ErrorStatus
          /\ last'.op = "update" /\ ReadsReturn'
          /\ Resolved(factorial_client) )
        => (status' # ErrorStatus /\ status' = FreshStatus) ]_vars

----------------------------------------------------------------------------
(* The refresh alone: update_status on a logged-in client at the clocks of a day *)

\* a client whose login resolved employee 7 and period 42
ResolvedClient ==
    [present |-> TRUE, logged_in |-> TRUE, employee_id |-> JInt(7), period_id |-> JInt(42)]

RefreshShifts == InitShifts \cup { <<Shift(Today, JStr(T1325), JNull)>> }

\* login_to_factorial has just run: the status is the one its update_status left
RefreshInit ==
    /\ factorial_client = ResolvedClient
    /\ shifts \in RefreshShifts
    /\ calendar_days \in SignalCalendars
    /\ now \in ClockTimes
    /\ \E fail \in 0..2 :
          \E r \in { update_status(factorial_client, calendar_days, shifts, now, fail # 1, fail # 2,
                                   <<"Status: Initializing...">>, <<"ClockInTime - Connected">>) } :
              /\ r.exc = NoExc
              /\ status = r.status
              /\ tooltip = r.tooltip
    /\ settings = NoSettings
    /\ event_monitor = AppMonitor
    /\ login_detector = AppDetector
    /\ last = Op("init", NoClient, shifts, <<>>, <<>>, NoExc, <<>>)
    /\ trace = <<>>

RefreshNext == UpdateStatus

RefreshSpec == RefreshInit /\ [][RefreshNext]_vars

\* the first entry of the feed for today is an open shift with a clock-in time
OpenShiftAt(feed, i) ==
    /\ i \in 1..Len(feed)
    /\ IsToday(feed[i])
    /\ \A k \in 1..(i - 1) : ~IsToday(feed[k])
    /\ feed[i].clock_in.t = "str" /\ ValidHM(feed[i].clock_in.v)
    /\ ~Truthy(Get(feed[i].clock_out))

\* the minutes left of the workday for a clock-in time string
MinutesLeft(clock_in) ==
    DEFAULT_WORKDAY_HOURS * 60 - ((now[1] * 60 + now[2]) - MinutesOfHM(clock_in))

\* C28: for an open shift on an eligible day update_status shows the overtime status
\* exactly when the remaining time is negative, and the remaining-time status when
\* it is zero or positive.
C28_OvertimeWhenNegative ==
    (last.op = "update" /\ ReadsReturn /\ should_work_today(last.client, calendar_days, TRUE).ret.should_work)
    => \A i \in 1..Len(shifts) :
          OpenShiftAt(shifts, i) =>
              /\ status[1] = "Status: Clocked in: "
              /\ status[Len(status)] = (IF MinutesLeft(shifts[i].clock_in.v) < 0
                                        THEN " (overtime!)" ELSE " left)")

----------------------------------------------------------------------------
(* The event sources alone (services/event_monitor.py): callbacks are        *)
(* registered, the system notifies sleep and wake, detect_login is called;   *)
(* a callback is any callable and returns or raises                          *)

\* what a callback does when it is called: it returns, or raises one of these
CallbackOutcomes ==
    { NoExc,
      Exc("APIError", <<>>),
      Exc("ValueError", <<>>),
      Exc("TypeError", <<>>),
      Exc("SystemExit", <<>>),
      Exc("KeyboardInterrupt", <<>>) }

\* a wrapper whose except clause is "except APIError"
Logged_APIError(e) == IsInstance(e.type, "APIError")

\* "except Exception as e: logger.error(...)": the exception stops in the wrapper
Logged(e) == IsInstance(e.type, "Exception")

\* MacEventMonitor._sleep_notification / _wake_notification: [invoked, exc] for a
\* callback that is set or not and does outcome when called
notification(callback, outcome) ==
    IF ~callback THEN [invoked |-> FALSE, exc |-> NoExc]
    ELSE [invoked |-> TRUE, exc |-> IF Logged(outcome) THEN NoExc ELSE outcome]

\* a detector that remembers the detection only once it has called the callback
detect_login_Lazy(d, outcome) ==
    IF d.login_detected
    THEN [detector |-> d, invoked |-> FALSE, exc |-> NoExc]
    ELSE [detector |-> [d EXCEPT !.login_detected = d.on_login_callback],
          invoked |-> d.on_login_callback,
          exc |-> IF d.on_login_callback /\ ~Logged(outcome) THEN outcome ELSE NoExc]

\* LoginEventDetector.detect_login: [detector, invoked, exc]
detect_login(d, outcome) ==
    IF d.login_detected
    THEN [detector |-> d, invoked |-> FALSE, exc |-> NoExc]
    ELSE [detector |-> [d EXCEPT !.login_detected = TRUE],
          invoked |-> d.on_login_callback,
          exc |-> IF d.on_login_callback /\ ~Logged(outcome) THEN outcome ELSE NoExc]

\* the event sources as their constructors leave them, or as ClockInTimeApp.__init__
\* leaves them
MonitorInit ==
    /\ factorial_client = NoClient
    /\ shifts = <<>>
    /\ calendar_days = <<>>
    /\ now \in Times
    /\ status = <<>>
    /\ tooltip = <<>>
    /\ settings = NoSettings
    /\ \/ event_monitor = NewMonitor /\ login_detector = NewDetector
       \/ event_monitor = AppMonitor /\ login_detector = AppDetector
    /\ last = Op("init", NoClient, shifts, <<>>, <<>>, NoExc, <<>>)
    /\ trace = <<>>

\* an operation of the event sources ends: registered says whether its callback was
\* set, detected whether a login had been detected, raises what the callback does
Signalled(name, registered, outcome, escaped, invoked) ==
    /\ last' = Op(name, NoClient, shifts,
                  [registered |-> registered, detected |-> login_detector.login_detected,
                   raises |-> outcome],
                  <<>>, escaped, invoked)
    /\ trace' = Append(trace, Summary(last'))
    /\ UNCHANGED <<factorial_client, shifts, calendar_days, now, status, tooltip, settings>>

\* MacEventMonitor.on_sleep(callback)
OnSleep ==
    /\ Len(trace) < MaxSignals
    /\ event_monitor' = [event_monitor EXCEPT !.on_sleep_callback = TRUE]
    /\ Signalled("on_sleep", event_monitor.on_sleep_callback, NoExc, NoExc, FALSE)
    /\ UNCHANGED login_detector

\* MacEventMonitor.on_wake(callback)
OnWake ==
    /\ Len(trace) < MaxSignals
    /\ event_monitor' = [event_monitor EXCEPT !.on_wake_callback = TRUE]
    /\ Signalled("on_wake", event_monitor.on_wake_callback, NoExc, NoExc, FALSE)
    /\ UNCHANGED login_detector

\* LoginEventDetector.on_login(callback)
OnLogin ==
    /\ Len(trace) < MaxSignals
    /\ login_detector' = [login_detector EXCEPT !.on_login_callback = TRUE]
    /\ Signalled("on_login", login_detector.on_login_callback, NoExc, NoExc, FALSE)
    /\ UNCHANGED event_monitor

\* NSWorkspaceWillSleepNotification: sleepNotification_ calls _sleep_notification
SleepNotification ==
    /\ Len(trace) < MaxSignals
    /\ \E outcome \in CallbackOutcomes :
          \E r \in { notification(event_monitor.on_sleep_callback, outcome) } :
              Signalled("sleep_notification", event_monitor.on_sleep_callback,
                        IF r.invoked THEN outcome ELSE NoExc, r.exc, r.invoked)
    /\ UNCHANGED <<event_monitor, login_detector>>

\* NSWorkspaceDidWakeNotification: wakeNotification_ calls _wake_notification
WakeNotification ==
    /\ Len(trace) < MaxSignals
    /\ \E outcome \in CallbackOutcomes :
          \E r \in { notification(event_monitor.on_wake_callback, outcome) } :
              Signalled("wake_notification", event_monitor.on_wake_callback,
                        IF r.invoked THEN outcome ELSE NoExc, r.exc, r.invoked)
    /\ UNCHANGED <<event_monitor, login_detector>>

\* LoginEventDetector.detect_login
DetectLogin ==
    /\ Len(trace) < MaxSignals
    /\ \E outcome \in CallbackOutcomes :
          \E r \in { detect_login(login_detector, outcome) } :
              /\ login_detector' = r.detector
              /\ Signalled("detect_login", login_detector.on_login_callback,
                           IF r.invoked THEN outcome ELSE NoExc, r.exc, r.invoked)
    /\ UNCHANGED event_monitor

MonitorNext ==
    \/ OnSleep
    \/ OnWake
    \/ OnLogin
    \/ SleepNotification
    \/ WakeNotification
    \/ DetectLogin

MonitorSpec == MonitorInit /\ [][MonitorNext]_vars

\* the calls of detect_login among the operations so far
DetectCalls == { i \in 1..Len(trace) : trace[i].op = "detect_login" }

\* C29: over any number of detect_login calls on one detector the login callback is
\* called at most once, and only by the first call; the first call calls it when
\* one is registered, and a first call made with none registered uses the detection
\* up, so no later call fires.
C29_LoginFiresOnce ==
    /\ Cardinality({ i \in DetectCalls : trace[i].fired }) <= 1
    /\ \A i \in DetectCalls : trace[i].fired => \A k \in DetectCalls : k >= i
    /\ (last.op = "detect_login" /\ ~last.inp.detected) => last.ret = last.inp.registered
    /\ login_detector.login_detected = (DetectCalls # {})

\* detect_login with no callback, then on_login, then detect_login: nothing fires
C29_Witness ==
    /\ Len(trace) = 3
    /\ trace[1].op = "detect_login" /\ ~trace[1].fired
    /\ trace[2].op = "on_login"
    /\ last.op = "detect_login" /\ last.inp.registered /\ last.inp.detected
    /\ last.ret = FALSE

NotifyOps == {"sleep_notification", "wake_notification", "detect_login"}

\* C30 as stated: an exception of any type raised by the sleep, wake or login
\* callback stops in the wrapper, and a later sleep or wake notification still calls
\* its callback.
C30_AnyExceptionCaught ==
    /\ (last.op \in NotifyOps /\ last.ret) => last.exc = NoExc
    /\ (last.op \in {"sleep_notification", "wake_notification"} /\ last.inp.registered) => last.ret

\* C30 amended: an exception raised by the sleep, wake or login callback that derives
\* from Exception stops in the wrapper, one that does not (SystemExit,
\* KeyboardInterrupt) goes on to the event source; a later sleep or wake
\* notification still calls its callback.
C30_ExceptionCaught ==
    /\ (last.op \in NotifyOps /\ last.ret)
       => last.exc = (IF IsInstance(last.inp.raises.type, "Exception") THEN NoExc ELSE last.inp.raises)
    /\ (last.op \in {"sleep_notification", "wake_notification"} /\ last.inp.registered) => last.ret

\* a sleep callback raised ValueError into the wrapper, and the next sleep
\* notification called the callback again
C30_Witness ==
    /\ Len(trace) >= 2
    /\ trace[Len(trace) - 1].op = "sleep_notification"
    /\ trace[Len(trace) - 1].fired /\ ~trace[Len(trace) - 1].through
    /\ last.op = "sleep_notification"
    /\ last.ret
    /\ last.inp.raises.type = "ValueError"
    /\ last.exc = NoExc
----------------------------------------------------------------------------
(* The application without a client, and after a failed login *)

\* the three signal handlers and the refresh
AppOps == {"login", "sleep", "wake", "update"}

\* C31: while the application holds no client, handle_login, handle_wake,
\* handle_sleep and update_status send no request, raise nothing and change nothing
\* of the application but the status text and the tooltip.
C31_NoClientNoRequest ==
    [][ (~factorial_client.present /\ last'.op \in AppOps)
        => /\ last'.reqs = <<>>
           /\ last'.exc = NoExc
           /\ UNCHANGED <<factorial_client, shifts, calendar_days, now, services>> ]_vars

\* without a client a Wake signal was handled and then the refresh showed
\* "Not connected"
C31_Witness ==
    /\ Len(trace) = 2
    /\ trace[1].op = "wake"
    /\ last.op = "update"
    /\ ~last.client.present
    /\ ~factorial_client.present
    /\ last.reqs = <<>>
    /\ status = <<"Status: Not connected">>
\* login_to_factorial raised at the sign-in page or at the credential POST: the
\* token was not found, the credentials were refused or a request failed
EarlyFailure(o) == o.op = "credentials" /\ o.ret # NoExc /\ Sent(o.reqs, PERIODS) = 0

\* the login attempts before operation j of the trace, the one of the construction
\* being attempt 0; it failed early exactly when the first operation found a
\* client that was not logged in
FailedEarly(i) == IF i = 0 THEN trace[1].held ELSE trace[i].early

\* before operation j an attempt failed early and none has succeeded since
Denied(j) ==
    \E i \in 0..(j - 1) :
        /\ FailedEarly(i)
        /\ \A k \in (i + 1)..(j - 1) : ~(trace[k].op = "credentials" /\ trace[k].through)

\* C32: a login attempt that fails at the token, the credentials or the transport
\* leaves the application with a new client that is not logged in, whatever
\* session it held before, and from then on no Login, Wake or Sleep signal sends a
\* clock-in or a clock-out until a later login attempt succeeds.
C32_NoWriteUntilLoginSucceeds ==
    /\ EarlyFailure(last) => factorial_client = NewClient
    /\ \A j \in 1..Len(trace) :
          (trace[j].op \in {"login", "wake", "sleep"} /\ Denied(j))
          => (trace[j].ins = 0 /\ trace[j].outs = 0)

====
